---------------------------- MODULE Spec2Model ----------------------------
(***************************************************************************)
(* NeXtVLAD.pytorch: the training script (train.py) and the feature        *)
(* extraction utilities (util.py).                                         *)
(*                                                                         *)
(* Three specifications share the module's variables:                      *)
(*   Spec      the training script: model.to, the epoch loop, train, eval, *)
(*             the checkpoint save, and an exception at any step;          *)
(*   SpecUtil  init_model, create_batches and process_batches;             *)
(*   SpecPca   feature_pca and feature_pca_whiten on bounded inputs.       *)
(* Each specification holds the other parts' variables at their idle       *)
(* values.                                                                 *)
(***************************************************************************)
EXTENDS Integers, Sequences, FiniteSets, TLC

VARIABLES
    \* ---- train.py ----
    pc,          \* position of the script
    cuda,        \* torch.cuda.is_available() on this machine
    numEpochs,   \* opt['num_epochs']
    gapk,        \* opt['gapk']
    numTrain,    \* len(train_loader): batches per training pass
    numTest,     \* len(test_dataset): test items
    epoch,       \* the loop variable of line 94
    mode,        \* model.training: "train" or "eval"
    modelDevice, \* where the model's parameters live
    params,      \* the model parameters, as the number of optimizer updates
    grads,       \* the gradients: "none", "zero" or "computed"
    lr,          \* optimizer.param_groups[0]['lr'], in units of 1e-6
    schedSteps,  \* exp_lr_schedulr.last_epoch
    trainLeft,   \* batches the train loader has still to yield in this pass
    batchOps,    \* the optimizer calls made for the current training batch
    batchesSeen, \* training batches yielded so far, over the whole run
    order,       \* the shuffled order of the test items in this evaluation
    pos,         \* test items already yielded in this evaluation
    preds,       \* eval's preds list
    actuals,     \* eval's actuals list
    gap,         \* gap_score of the current epoch, in units of 1e-4
    ckpts,       \* the checkpoint directory: file name -> content
    events,      \* the steps of the current epoch, in the order taken
    failCause,   \* "none", "device" (CUDA missing) or "other"
    failAt,      \* the position the run failed at
    gapHist,     \* gap_score returned by each epoch's eval
    trainedHist, \* params at the end of each epoch's training pass
    \* ---- util.py: batches ----
    upc,         \* position of the feature extraction
    ucuda,       \* torch.cuda.is_available()
    frames,      \* frames_to_do
    batchSize,   \* batch_size argument of create_batches
    ftype,       \* backbone name
    featDevice,  \* where init_model left the backbone
    batches,     \* the list create_batches returned
    feats,       \* the array process_batches returned
    uerr,        \* the exception create_batches raised, or "none"
    \* ---- util.py: PCA ----
    ppc,         \* which of the two functions have run
    feat, center, eigenvals, eigenvecs,
    fpca,        \* result of feature_pca
    pcaw         \* result of feature_pca_whiten

trainVars == <<pc, cuda, numEpochs, gapk, numTrain, numTest, epoch, mode,
               modelDevice, params, grads, lr, schedSteps, trainLeft, batchOps,
               batchesSeen, order, pos, preds, actuals, gap, ckpts, events,
               failCause, failAt, gapHist, trainedHist>>
utilVars == <<upc, ucuda, frames, batchSize, ftype, featDevice, batches, feats, uerr>>
pcaVars == <<ppc, feat, center, eigenvals, eigenvecs, fpca, pcaw>>
vars == <<trainVars, utilVars, pcaVars>>

----------------------------------------------------------------------------
(* Bounds of the model. *)

MaxEpochs == 2
MaxTrainBatches == 2
MaxTestItems == 3
\* DataLoader(batch_size=8) of train.py:84, scaled down with the test set.
TestBatchSize == 2

----------------------------------------------------------------------------
(* Helpers. *)

Min(a, b) == IF a < b THEN a ELSE b

IsPrefix(s, t) == Len(s) <= Len(t) /\ \A i \in 1..Len(s) : s[i] = t[i]

Perms(S) == {f \in [1..Cardinality(S) -> S] : \A i, j \in 1..Cardinality(S) : f[i] = f[j] => i = j}

----------------------------------------------------------------------------
(* train.py *)

\* optim.Adam(model.parameters(), lr=0.001), in units of 1e-6.
InitialLR == 1000
\* StepLR(optimizer, step_size=25)
StepSize == 25

\* --gapk (default 20) as given on the command line.
GapKs == {5, 20}

\* Values calculate_gap returns, in units of 1e-4.
GapScores == {1234, 1236, 9996}

\* f"{gap_score:.3f}": the score rounded to three decimals, in units of 1e-3.
Format3(g) == (g + 5) \div 10

\* The file name with the epoch left out.
CkptNameNoEpoch(e, k, g) == [epoch |-> 0, gapk |-> k, score |-> Format3(g)]
\* f"model_e{epoch}_gap{opt['gapk']}-{gap_score:.3f}.pth"
CkptName(e, k, g) == [epoch |-> e, gapk |-> k, score |-> Format3(g)]

\* preds.extend(out), actuals.extend(labels): one element per row of the batch.
Extend(list, rows) == list \o rows

\* out = model(fc_feats, mask=masks): one prediction per item of the batch,
\* computed with the current parameters.
Forward(items) == [i \in 1..Len(items) |-> [item |-> items[i], params |-> params]]
\* data['ground_truth']: one label vector per item of the batch.
Labels(items) == [i \in 1..Len(items) |-> [item |-> items[i]]]

\* The steps of one epoch, lines 95-103.
EpochOrder == <<"train_mode", "train_pass", "eval_mode", "eval", "save">>

TrainInit ==
    /\ pc = "start"
    /\ cuda \in BOOLEAN
    /\ numEpochs \in 0..MaxEpochs
    /\ gapk \in GapKs
    /\ numTrain \in 0..MaxTrainBatches
    /\ numTest \in 0..MaxTestItems
    /\ epoch = 0
    /\ mode = "train"
    /\ modelDevice = "cpu"
    /\ params = 0
    /\ grads = "none"
    /\ lr = InitialLR
    /\ schedSteps = 0
    /\ trainLeft = 0
    /\ batchOps = <<>>
    /\ batchesSeen = 0
    /\ order = <<>>
    /\ pos = 0
    /\ preds = <<>>
    /\ actuals = <<>>
    /\ gap = 0
    /\ ckpts = <<>>
    /\ events = <<>>
    /\ failCause = "none"
    /\ failAt = "none"
    /\ gapHist = <<>>
    /\ trainedHist = <<>>

\* model.to(device) with device = torch.device("cuda:0"), lines 14 and 92.
ModelTo ==
    /\ pc = "start"
    /\ IF cuda
         THEN /\ modelDevice' = "cuda"
              /\ pc' = "loop"
              /\ UNCHANGED <<failCause, failAt>>
         ELSE /\ pc' = "failed"
              /\ failCause' = "device"
              /\ failAt' = "start"
              /\ UNCHANGED modelDevice
    /\ UNCHANGED <<utilVars, pcaVars>>
    /\ UNCHANGED <<cuda, numEpochs, gapk, numTrain, numTest, epoch, mode, params,
                   grads, lr, schedSteps, trainLeft, batchOps, batchesSeen, order,
                   pos, preds, actuals, gap, ckpts, events, gapHist, trainedHist>>

\* for epoch in range(opt['num_epochs']), line 94.
LoopHead ==
    /\ pc = "loop"
    /\ pc' = IF epoch < numEpochs THEN "set_train" ELSE "done"
    /\ UNCHANGED <<utilVars, pcaVars>>
    /\ UNCHANGED <<cuda, numEpochs, gapk, numTrain, numTest, epoch, mode,
                   modelDevice, params, grads, lr, schedSteps, trainLeft, batchOps,
                   batchesSeen, order, pos, preds, actuals, gap, ckpts, events,
                   failCause, failAt, gapHist, trainedHist>>

\* model.train(), line 95.
SetTrainMode ==
    /\ pc = "set_train"
    /\ mode' = "train"
    /\ events' = <<"train_mode">>
    /\ pc' = "train_begin"
    /\ UNCHANGED <<utilVars, pcaVars>>
    /\ UNCHANGED <<cuda, numEpochs, gapk, numTrain, numTest, epoch, modelDevice,
                   params, grads, lr, schedSteps, trainLeft, batchOps, batchesSeen,
                   order, pos, preds, actuals, gap, ckpts, failCause, failAt,
                   gapHist, trainedHist>>

\* train(): the loader's iterator is created, lines 18-19.
TrainBegin ==
    /\ pc = "train_begin"
    /\ trainLeft' = numTrain
    /\ pc' = "fetch"
    /\ UNCHANGED <<utilVars, pcaVars>>
    /\ UNCHANGED <<cuda, numEpochs, gapk, numTrain, numTest, epoch, mode,
                   modelDevice, params, grads, lr, schedSteps, batchOps, batchesSeen,
                   order, pos, preds, actuals, gap, ckpts, events, failCause, failAt,
                   gapHist, trainedHist>>

\* for data in train_loader: the next batch, its forward pass and loss
\* (lines 19-25), or the end of the pass.
TrainFetch ==
    /\ pc = "fetch"
    /\ IF trainLeft > 0
         THEN /\ trainLeft' = trainLeft - 1
              /\ batchesSeen' = batchesSeen + 1
              /\ batchOps' = <<>>
              /\ pc' = "zero_grad"
              /\ UNCHANGED <<events, trainedHist>>
         ELSE /\ events' = Append(events, "train_pass")
              /\ trainedHist' = Append(trainedHist, params)
              /\ pc' = "set_eval"
              /\ UNCHANGED <<trainLeft, batchesSeen, batchOps>>
    /\ UNCHANGED <<utilVars, pcaVars>>
    /\ UNCHANGED <<cuda, numEpochs, gapk, numTrain, numTest, epoch, mode,
                   modelDevice, params, grads, lr, schedSteps, order, pos, preds,
                   actuals, gap, ckpts, failCause, failAt, gapHist>>

\* optimizer.zero_grad(), line 27.
ZeroGrad ==
    /\ pc = "zero_grad"
    /\ grads' = "zero"
    /\ batchOps' = Append(batchOps, "zero_grad")
    /\ pc' = "backward"
    /\ UNCHANGED <<utilVars, pcaVars>>
    /\ UNCHANGED <<cuda, numEpochs, gapk, numTrain, numTest, epoch, mode,
                   modelDevice, params, lr, schedSteps, trainLeft, batchesSeen,
                   order, pos, preds, actuals, gap, ckpts, events, failCause, failAt,
                   gapHist, trainedHist>>

\* loss.backward(), line 28.
Backward ==
    /\ pc = "backward"
    /\ grads' = "computed"
    /\ batchOps' = Append(batchOps, "backward")
    /\ pc' = "step"
    /\ UNCHANGED <<utilVars, pcaVars>>
    /\ UNCHANGED <<cuda, numEpochs, gapk, numTrain, numTest, epoch, mode,
                   modelDevice, params, lr, schedSteps, trainLeft, batchesSeen,
                   order, pos, preds, actuals, gap, ckpts, events, failCause, failAt,
                   gapHist, trainedHist>>

\* StepLR: lr = initial_lr * 0.1 ^ (last_epoch // step_size).
RECURSIVE Pow10(_)
Pow10(n) == IF n = 0 THEN 1 ELSE 10 * Pow10(n - 1)
StepLR(last) == InitialLR \div Pow10(last \div StepSize)

\* The optimizer step followed by scheduler.step().
OptimizerStepWithScheduler ==
    /\ pc = "step"
    /\ params' = params + 1
    /\ batchOps' = Append(batchOps, "step")
    /\ schedSteps' = schedSteps + 1
    /\ lr' = StepLR(schedSteps + 1)
    /\ pc' = "fetch"
    /\ UNCHANGED <<utilVars, pcaVars>>
    /\ UNCHANGED <<cuda, numEpochs, gapk, numTrain, numTest, epoch, mode,
                   modelDevice, grads, trainLeft, batchesSeen,
                   order, pos, preds, actuals, gap, ckpts, events, failCause, failAt,
                   gapHist, trainedHist>>

\* optimizer.step() and the progress bar, lines 29-32. The scheduler handed
\* to train is not used.
OptimizerStep ==
    /\ pc = "step"
    /\ params' = params + 1
    /\ batchOps' = Append(batchOps, "step")
    /\ pc' = "fetch"
    /\ UNCHANGED <<utilVars, pcaVars>>
    /\ UNCHANGED <<cuda, numEpochs, gapk, numTrain, numTest, epoch, mode,
                   modelDevice, grads, lr, schedSteps, trainLeft, batchesSeen,
                   order, pos, preds, actuals, gap, ckpts, events, failCause, failAt,
                   gapHist, trainedHist>>

\* The script with model.eval() left out.
SetEvalModeSkipped ==
    /\ pc = "set_eval"
    /\ events' = Append(events, "eval_mode")
    /\ pc' = "eval_begin"
    /\ UNCHANGED <<utilVars, pcaVars>>
    /\ UNCHANGED <<cuda, numEpochs, gapk, numTrain, numTest, epoch, mode, modelDevice,
                   params, grads, lr, schedSteps, trainLeft, batchOps, batchesSeen,
                   order, pos, preds, actuals, gap, ckpts, failCause, failAt,
                   gapHist, trainedHist>>

\* model.eval(), line 98.
SetEvalMode ==
    /\ pc = "set_eval"
    /\ mode' = "eval"
    /\ events' = Append(events, "eval_mode")
    /\ pc' = "eval_begin"
    /\ UNCHANGED <<utilVars, pcaVars>>
    /\ UNCHANGED <<cuda, numEpochs, gapk, numTrain, numTest, epoch, modelDevice,
                   params, grads, lr, schedSteps, trainLeft, batchOps, batchesSeen,
                   order, pos, preds, actuals, gap, ckpts, failCause, failAt,
                   gapHist, trainedHist>>

\* eval(): preds = [], actuals = [], and the iterator of the shuffled test
\* loader (lines 36-39, 83-86): the sampler draws a permutation of the items.
EvalBegin ==
    /\ pc = "eval_begin"
    /\ preds' = <<>>
    /\ actuals' = <<>>
    /\ \E p \in Perms(1..numTest) : order' = p
    /\ pos' = 0
    /\ pc' = "eval"
    /\ UNCHANGED <<utilVars, pcaVars>>
    /\ UNCHANGED <<cuda, numEpochs, gapk, numTrain, numTest, epoch, mode,
                   modelDevice, params, grads, lr, schedSteps, trainLeft, batchOps,
                   batchesSeen, gap, ckpts, events, failCause, failAt, gapHist,
                   trainedHist>>

\* The batch with preds.append(out[0]) in place of preds.extend(out).
EvalBatchFirstRow ==
    /\ pc = "eval"
    /\ pos < numTest
    /\ LET n == Min(TestBatchSize, numTest - pos)
           items == [i \in 1..n |-> order[pos + i]]
       IN /\ preds' = Append(preds, Forward(items)[1])
          /\ actuals' = Extend(actuals, Labels(items))
          /\ pos' = pos + n
    /\ UNCHANGED <<utilVars, pcaVars>>
    /\ UNCHANGED <<pc, cuda, numEpochs, gapk, numTrain, numTest, epoch, mode,
                   modelDevice, params, grads, lr, schedSteps, trainLeft, batchOps,
                   batchesSeen, order, gap, ckpts, events, failCause, failAt,
                   gapHist, trainedHist>>

\* One test batch: the next TestBatchSize items of the order (the last batch
\* may be smaller), the forward pass, and the two extends; lines 39-48.
EvalBatch ==
    /\ pc = "eval"
    /\ pos < numTest
    /\ LET n == Min(TestBatchSize, numTest - pos)
           items == [i \in 1..n |-> order[pos + i]]
       IN /\ preds' = Extend(preds, Forward(items))
          /\ actuals' = Extend(actuals, Labels(items))
          /\ pos' = pos + n
    /\ UNCHANGED <<utilVars, pcaVars>>
    /\ UNCHANGED <<pc, cuda, numEpochs, gapk, numTrain, numTest, epoch, mode,
                   modelDevice, params, grads, lr, schedSteps, trainLeft, batchOps,
                   batchesSeen, order, gap, ckpts, events, failCause, failAt,
                   gapHist, trainedHist>>

\* gap_score = calculate_gap(...), returned and printed; lines 50-51, 99-100.
EvalScore ==
    /\ pc = "eval"
    /\ pos = numTest
    /\ \E g \in GapScores : /\ gap' = g
                            /\ gapHist' = Append(gapHist, g)
    /\ events' = Append(events, "eval")
    /\ pc' = "save"
    /\ UNCHANGED <<utilVars, pcaVars>>
    /\ UNCHANGED <<cuda, numEpochs, gapk, numTrain, numTest, epoch, mode,
                   modelDevice, params, grads, lr, schedSteps, trainLeft, batchOps,
                   batchesSeen, order, pos, preds, actuals, ckpts, failCause, failAt,
                   trainedHist>>

\* A file of the checkpoint directory written (or overwritten).
WriteFile(dir, name, content) ==
    [n \in DOMAIN dir \cup {name} |-> IF n = name THEN content ELSE dir[n]]

\* torch.save(model.state_dict(), model_path), lines 102-104; the loop
\* variable then advances.
SaveCheckpoint ==
    /\ pc = "save"
    /\ ckpts' = WriteFile(ckpts, CkptName(epoch, gapk, gap), [params |-> params])
    /\ events' = Append(events, "save")
    /\ epoch' = epoch + 1
    /\ pc' = "loop"
    /\ UNCHANGED <<utilVars, pcaVars>>
    /\ UNCHANGED <<cuda, numEpochs, gapk, numTrain, numTest, mode,
                   modelDevice, params, grads, lr, schedSteps, trainLeft, batchOps,
                   batchesSeen, order, pos, preds, actuals, gap, failCause, failAt,
                   gapHist, trainedHist>>

\* An exception caught around the step: the loop goes on to the next epoch.
FailSwallowed ==
    /\ pc \in {"set_train", "train_begin", "fetch", "zero_grad", "backward", "step",
               "set_eval", "eval_begin", "eval", "save"}
    /\ failCause' = "other"
    /\ failAt' = pc
    /\ epoch' = epoch + 1
    /\ pc' = "loop"
    /\ UNCHANGED <<utilVars, pcaVars>>
    /\ UNCHANGED <<cuda, numEpochs, gapk, numTrain, numTest, mode,
                   modelDevice, params, grads, lr, schedSteps, trainLeft, batchOps,
                   batchesSeen, order, pos, preds, actuals, gap, ckpts, events,
                   gapHist, trainedHist>>

\* An exception raised by any step of the epoch loop (lines 94-104, and
\* train and eval under it): nothing catches it, the process ends. A save
\* that fails may leave a partial file behind.
Fail ==
    /\ pc \in {"set_train", "train_begin", "fetch", "zero_grad", "backward", "step",
               "set_eval", "eval_begin", "eval", "save"}
    /\ failCause' = "other"
    /\ failAt' = pc
    /\ pc' = "failed"
    /\ \/ ckpts' = ckpts
       \/ /\ pc = "save"
          /\ ckpts' = WriteFile(ckpts, CkptName(epoch, gapk, gap), "partial")
    /\ UNCHANGED <<utilVars, pcaVars>>
    /\ UNCHANGED <<cuda, numEpochs, gapk, numTrain, numTest, epoch, mode,
                   modelDevice, params, grads, lr, schedSteps, trainLeft, batchOps,
                   batchesSeen, order, pos, preds, actuals, gap, events,
                   gapHist, trainedHist>>

----------------------------------------------------------------------------------------------------------------------------------------
(* util.py: init_model, create_batches, process_batches *)

MaxFrames == 4
MaxBatch == 3

\* Backbone names: the two NASNet variants take the ReLU + AvgPool2d branch.
FTypes == {"nasnetalarge", "pnasnet5large", "inceptionresnetv2"}

\* Frame lists: N distinct frames in any order, N = 0 included.
FrameLists == UNION {Perms(1..n) : n \in 0..MaxFrames}

\* range(idx, n, step) for step > 0.
RECURSIVE Range(_, _, _)
Range(idx, n, step) ==
    IF idx >= n THEN <<>> ELSE <<idx>> \o Range(idx + step, n, step)

\* tf_img_fn(input_frame): the tensor of one frame.
Tensor(f) == [frame |-> f]

\* create_batches, lines 45-73. With n < batch_size the batch size is cut to
\* n; a step of 0 makes range() raise ValueError.
create_batches(frames_to_do, batch_size) ==
    LET n == Len(frames_to_do)
        bs == IF n < batch_size THEN n ELSE batch_size
    IN IF bs = 0
         THEN [raised |-> "ValueError", value |-> <<>>]
         ELSE LET starts == Range(0, n, bs)
              IN [raised |-> "none",
                  value |-> [k \in 1..Len(starts) |->
                               [i \in 1..(Min(starts[k] + bs, n) - starts[k]) |->
                                  Tensor(frames_to_do[starts[k] + i])]]]

\* One batch through model.features and the pooling of lines 159-173: one
\* row per frame of the batch, in the batch's order.
PoolBatch(batch, ft) ==
    [i \in 1..Len(batch) |->
        [frame |-> batch[i].frame,
         pool |-> IF ft = "nasnetalarge" \/ ft = "pnasnet5large"
                    THEN "relu_avgpool" ELSE "adaptive_avgpool"]]

RECURSIVE ConcatReversed(_, _)
ConcatReversed(bs, ft) ==
    IF bs = <<>> THEN <<>>
    ELSE ConcatReversed(Tail(bs), ft) \o PoolBatch(Head(bs), ft)

\* Each batch's rows put in front of the rows done so far.
process_batches_prepend(bs, ft) == ConcatReversed(bs, ft)

RECURSIVE Concat(_, _)
Concat(bs, ft) ==
    IF bs = <<>> THEN <<>>
    ELSE PoolBatch(Head(bs), ft) \o Concat(Tail(bs), ft)

\* process_batches, lines 153-178: done_batches in order, then
\* np.concatenate(done_batches, axis=0).
process_batches(bs, ft) == Concat(bs, ft)

UtilInit ==
    /\ upc = "init"
    /\ ucuda \in BOOLEAN
    /\ frames \in FrameLists
    /\ batchSize \in 1..MaxBatch
    /\ ftype \in FTypes
    /\ featDevice = "cpu"
    /\ batches = <<>>
    /\ feats = <<>>
    /\ uerr = "none"

\* init_model, lines 126-150: the backbone goes to the GPU only when CUDA is
\* available.
CallInitModel ==
    /\ upc = "init"
    /\ featDevice' = IF ucuda THEN "cuda" ELSE "cpu"
    /\ upc' = "ready"
    /\ UNCHANGED <<ucuda, frames, batchSize, ftype, batches, feats, uerr>>
    /\ UNCHANGED <<trainVars, pcaVars>>

CallCreateBatches ==
    /\ upc = "ready"
    /\ LET r == create_batches(frames, batchSize)
       IN /\ uerr' = r.raised
          /\ batches' = r.value
          /\ upc' = IF r.raised = "none" THEN "batched" ELSE "raised"
    /\ UNCHANGED <<ucuda, frames, batchSize, ftype, featDevice, feats>>
    /\ UNCHANGED <<trainVars, pcaVars>>

CallProcessBatches ==
    /\ upc = "batched"
    /\ feats' = process_batches(batches, ftype)
    /\ upc' = "processed"
    /\ UNCHANGED <<ucuda, frames, batchSize, ftype, featDevice, batches, uerr>>
    /\ UNCHANGED <<trainVars, pcaVars>>

----------------------------------------------------------------------------
(* util.py: feature_pca, feature_pca_whiten *)

MaxAbs == 1
MaxEig == 1

\* epsilon = 1e-4, line 13; eigenvalues are in units of 1e-4.
Epsilon == 1

\* Feature vectors have two components; projections keep one or two.
Dims == {1, 2}
FeatVecs == [Dims -> (0 - MaxAbs)..MaxAbs]
CenterVecs == [Dims -> 0..1]
EigVals(k) == [1..k -> (0 - 1)..MaxEig]
EigVecs(k) == [1..k -> [Dims -> {0 - 1, 0, 1}]]

RECURSIVE SumSeq(_)
SumSeq(s) == IF s = <<>> THEN 0 ELSE Head(s) + SumSeq(Tail(s))

\* The projection by eigenvecs in place of eigenvecs.T; the shapes fit only
\* when eigenvecs is square.
feature_pca_untransposed(f, c, ev, E) ==
    IF Len(E) = Len(f)
      THEN [i \in 1..Len(E) |-> SumSeq([j \in 1..Len(f) |-> (f[j] - c[j]) * E[j][i]])]
      ELSE <<>>

\* feature_pca, lines 26-42: (feat - center) . eigenvecs.T
feature_pca(f, c, ev, E) ==
    [i \in 1..Len(E) |-> SumSeq([j \in 1..Len(f) |-> (f[j] - c[j]) * E[i][j]])]

\* The whitening with epsilon left out.
feature_pca_whiten_noeps(f, c, ev, E) ==
    [i \in 1..Len(E) |->
        [num |-> SumSeq([j \in 1..Len(f) |-> (f[j] - c[j]) * E[i][j]]),
         rad |-> ev[i]]]

\* feature_pca_whiten, lines 12-23. Component i is the quotient
\* num / sqrt(rad), kept as the pair (num, rad): rad = 0 is a division by
\* zero (numpy gives inf or nan), rad < 0 the square root of a negative.
feature_pca_whiten(f, c, ev, E) ==
    [i \in 1..Len(E) |->
        [num |-> SumSeq([j \in 1..Len(f) |-> (f[j] - c[j]) * E[i][j]]),
         rad |-> ev[i] + Epsilon]]

PcaInit ==
    /\ ppc = "input"
    /\ feat \in FeatVecs
    /\ center \in CenterVecs
    /\ \E k \in Dims : /\ eigenvals \in EigVals(k)
                       /\ eigenvecs \in EigVecs(k)
    /\ fpca = <<>>
    /\ pcaw = <<>>

CallFeaturePca ==
    /\ ppc = "input"
    /\ fpca' = feature_pca(feat, center, eigenvals, eigenvecs)
    /\ ppc' = "pca"
    /\ UNCHANGED <<feat, center, eigenvals, eigenvecs, pcaw>>
    /\ UNCHANGED <<trainVars, utilVars>>

CallFeaturePcaWhiten ==
    /\ ppc = "pca"
    /\ pcaw' = feature_pca_whiten(feat, center, eigenvals, eigenvecs)
    /\ ppc' = "whitened"
    /\ UNCHANGED <<feat, center, eigenvals, eigenvecs, fpca>>
    /\ UNCHANGED <<trainVars, utilVars>>

----------------
(* Idle values of the other parts. *)

TrainIdle ==
    /\ pc = "off"
    /\ cuda = FALSE
    /\ numEpochs = 0
    /\ gapk = 20
    /\ numTrain = 0
    /\ numTest = 0
    /\ epoch = 0
    /\ mode = "train"
    /\ modelDevice = "cpu"
    /\ params = 0
    /\ grads = "none"
    /\ lr = InitialLR
    /\ schedSteps = 0
    /\ trainLeft = 0
    /\ batchOps = <<>>
    /\ batchesSeen = 0
    /\ order = <<>>
    /\ pos = 0
    /\ preds = <<>>
    /\ actuals = <<>>
    /\ gap = 0
    /\ ckpts = <<>>
    /\ events = <<>>
    /\ failCause = "none"
    /\ failAt = "none"
    /\ gapHist = <<>>
    /\ trainedHist = <<>>

UtilIdle ==
    /\ upc = "off"
    /\ ucuda = FALSE
    /\ frames = <<>>
    /\ batchSize = 1
    /\ ftype = "none"
    /\ featDevice = "cpu"
    /\ batches = <<>>
    /\ feats = <<>>
    /\ uerr = "none"

PcaIdle ==
    /\ ppc = "off"
    /\ feat = <<>>
    /\ center = <<>>
    /\ eigenvals = <<>>
    /\ eigenvecs = <<>>
    /\ fpca = <<>>
    /\ pcaw = <<>>

Init == TrainInit /\ UtilIdle /\ PcaIdle

Next ==
    \/ ModelTo
    \/ LoopHead
    \/ SetTrainMode
    \/ TrainBegin
    \/ TrainFetch
    \/ ZeroGrad
    \/ Backward
    \/ OptimizerStep
    \/ SetEvalMode
    \/ EvalBegin
    \/ EvalBatch
    \/ EvalScore
    \/ SaveCheckpoint
    \/ Fail

Spec == Init /\ [][Next]_vars

InitUtil == TrainIdle /\ UtilInit /\ PcaIdle

NextUtil ==
    \/ CallInitModel
    \/ CallCreateBatches
    \/ CallProcessBatches

SpecUtil == InitUtil /\ [][NextUtil]_vars

InitPca == TrainIdle /\ UtilIdle /\ PcaInit

NextPca ==
    \/ CallFeaturePca
    \/ CallFeaturePcaWhiten

SpecPca == InitPca /\ [][NextPca]_vars

----------------------------------------------------------------------------
(* Properties of create_batches and process_batches (SpecUtil). *)

RECURSIVE SumLens(_)
SumLens(bs) == IF bs = <<>> THEN 0 ELSE Len(Head(bs)) + SumLens(Tail(bs))

CeilDiv(n, b) == (n + b - 1) \div b

\* C1: for any list of N frames and any batch size B, create_batches
\* returns ceil(N/B) batches whose sizes sum to N and are each at most B,
\* N = 0 included.
C1_BatchCount ==
    upc \in {"batched", "raised", "processed"} =>
        /\ uerr = "none"
        /\ Len(batches) = CeilDiv(Len(frames), batchSize)
        /\ SumLens(batches) = Len(frames)
        /\ \A j \in 1..Len(batches) : Len(batches[j]) <= batchSize

\* C8: for N >= 1 frames, position i of batch j holds frame j*B+i (counted
\* from 0), no frame is dropped or duplicated, and process_batches returns
\* one row per frame, row r belonging to input frame r.
C8_OrderKept ==
    (upc \in {"batched", "raised", "processed"} /\ Len(frames) >= 1) =>
        /\ upc # "raised"
        /\ SumLens(batches) = Len(frames)
        /\ \A j \in 1..Len(batches) : \A i \in 1..Len(batches[j]) :
              /\ (j - 1) * batchSize + i \in 1..Len(frames)
              /\ batches[j][i].frame = frames[(j - 1) * batchSize + i]
        /\ upc = "processed" =>
              /\ Len(feats) = SumLens(batches)
              /\ \A r \in 1..Len(feats) : feats[r].frame = frames[r]

\* C8's case: several batches, the last one partial, all processed.
C8_Witness ==
    /\ upc = "processed"
    /\ Len(batches) >= 2
    /\ Len(batches[Len(batches)]) < batchSize
    /\ Len(feats) = Len(frames)

----------------------------------------------------------------------------
(* Properties of feature_pca and feature_pca_whiten (SpecPca). *)

\* eigenvecs is square with orthonormal rows.
Orthonormal(E) ==
    /\ Len(E) = Cardinality(Dims)
    /\ \A i, k \in 1..Len(E) :
          SumSeq([j \in 1..Len(E) |-> E[i][j] * E[k][j]]) = (IF i = k THEN 1 ELSE 0)

\* y . eigenvecs + center
InverseProject(y, E, c) ==
    [j \in Dims |-> SumSeq([i \in 1..Len(E) |-> y[i] * E[i][j]]) + c[j]]

\* C6: component i of feature_pca_whiten is component i of feature_pca
\* divided by sqrt(eigenvals[i] + epsilon), epsilon the same constant on
\* every call, and the divisor is non-zero for every eigenvalue >= 0.
C6_Whiten ==
    ppc = "whitened" =>
        \A i \in 1..Len(eigenvecs) :
            /\ pcaw[i].num = feature_pca(feat, center, eigenvals, eigenvecs)[i]
            /\ pcaw[i].num = fpca[i]
            /\ pcaw[i].rad = eigenvals[i] + Epsilon
            /\ eigenvals[i] >= 0 => pcaw[i].rad > 0

\* C6's case: a zero eigenvalue whitened, with a non-zero component.
C6_Witness ==
    /\ ppc = "whitened"
    /\ \E i \in 1..Len(eigenvecs) : eigenvals[i] = 0 /\ pcaw[i].num # 0
    /\ center # [j \in Dims |-> 0]

\* C7: with a square orthonormal eigenvecs, inverse-projecting the result of
\* feature_pca and re-adding the center gives the original vector back.
C7_RoundTrip ==
    (ppc \in {"pca", "whitened"} /\ Orthonormal(eigenvecs)) =>
        InverseProject(fpca, eigenvecs, center) = feat

\* C7's case: a rotation (not its own transpose), a non-zero center.
C7_Witness ==
    /\ ppc = "pca"
    /\ Orthonormal(eigenvecs)
    /\ eigenvecs[1][2] # eigenvecs[2][1]
    /\ center[1] # 0
    /\ feat[1] # feat[2]

----------------------------------------------------------------------------
(* Properties of the training script (Spec). *)

\* C2: a completed run of E epochs has written exactly E checkpoint files,
\* one per epoch e in 0..E-1, named by e, the configured gapk and the score
\* of that epoch's evaluation, pairwise distinct, each holding the
\* parameters as they were after epoch e's training pass.
C2_Checkpoints ==
    pc = "done" =>
        /\ Cardinality(DOMAIN ckpts) = numEpochs
        /\ \A e \in 0..(numEpochs - 1) :
              LET name == [epoch |-> e, gapk |-> gapk, score |-> Format3(gapHist[e + 1])]
              IN /\ name \in DOMAIN ckpts
                 /\ ckpts[name] = [params |-> trainedHist[e + 1]]

\* C2's case: a completed run of two epochs that trained, with equal scores.
C2_Witness ==
    /\ pc = "done"
    /\ numEpochs >= 2
    /\ numTrain >= 1
    /\ gapHist[1] = gapHist[2]
    /\ Cardinality(DOMAIN ckpts) = 2

\* C3: a failing step ends the run: nothing runs after it, it is not tried
\* again, no checkpoint exists for the failed epoch (when the failure came
\* before its save) or a later one, and the earlier checkpoints stay as
\* they were.
C3_NoRecovery ==
    /\ [](failCause # "none" => pc = "failed")
    /\ []((pc = "failed" /\ failAt # "save") =>
             \A n \in DOMAIN ckpts : n.epoch < epoch)
    /\ [](pc = "failed" => \A n \in DOMAIN ckpts : n.epoch <= epoch)
    /\ [][pc # "failed"]_vars
    /\ [][pc' = "failed" =>
             \A n \in DOMAIN ckpts :
                 n.epoch < epoch => (n \in DOMAIN ckpts' /\ ckpts'[n] = ckpts[n])]_vars

\* C3's case: the evaluation of the second epoch failed, the first epoch's
\* checkpoint is there.
C3_Witness ==
    /\ pc = "failed"
    /\ failAt = "eval"
    /\ epoch = 1
    /\ Cardinality(DOMAIN ckpts) = 1

\* C4: with CUDA unavailable the program runs on the CPU and does not fail
\* for want of a device.
C4_CudaFallback ==
    (~cuda /\ pc # "start") => (modelDevice = "cpu" /\ failCause # "device")

\* C5: preds and actuals have the same length after every test batch, entry
\* i of both comes from the same test item, and at the end of the evaluation
\* each test item has exactly one entry.
C5_Parallel ==
    /\ Len(preds) = Len(actuals)
    /\ \A i \in 1..Len(preds) : preds[i].item = actuals[i].item
    /\ pc = "eval" => Len(preds) = pos
    /\ pc = "save" =>
          /\ Len(preds) = numTest
          /\ \A t \in 1..numTest :
                Cardinality({i \in 1..Len(preds) : preds[i].item = t}) = 1

\* C5's case: an evaluation of two batches, the second partial, yielded in
\* an order other than the dataset's.
C5_Witness ==
    /\ pc = "save"
    /\ numTest = TestBatchSize + 1
    /\ Len(preds) = numTest
    /\ preds[1].item # 1

\* C9: every epoch runs train mode, training pass, eval mode, evaluation,
\* save in this order; the model is in training mode at every optimizer
\* step and in evaluation mode at every evaluation forward pass; a training
\* batch makes one zero_grad, one backward, one optimizer step in this
\* order; the evaluation and the save leave the parameters as the training
\* pass left them.
C9_EpochOrder ==
    /\ IsPrefix(events, EpochOrder)
    /\ pc \in {"train_begin", "fetch", "zero_grad", "backward", "step"} =>
          (mode = "train" /\ events = SubSeq(EpochOrder, 1, 1))
    /\ pc = "set_eval" => events = SubSeq(EpochOrder, 1, 2)
    /\ pc \in {"eval_begin", "eval"} =>
          (mode = "eval" /\ events = SubSeq(EpochOrder, 1, 3))
    /\ pc = "save" => (mode = "eval" /\ events = SubSeq(EpochOrder, 1, 4))
    /\ (pc \in {"loop", "set_train", "done"} /\ epoch > 0) => events = EpochOrder
    /\ pc = "zero_grad" => (batchOps = <<>> /\ params = batchesSeen - 1)
    /\ pc = "backward" => (batchOps = <<"zero_grad">> /\ params = batchesSeen - 1)
    /\ pc = "step" => (batchOps = <<"zero_grad", "backward">> /\ params = batchesSeen - 1)
    /\ pc \in {"fetch", "set_eval"} =>
          /\ params = batchesSeen
          /\ batchesSeen > 0 => batchOps = <<"zero_grad", "backward", "step">>
    /\ pc \in {"eval_begin", "eval", "save"} => params = trainedHist[epoch + 1]
    /\ (pc \in {"loop", "set_train", "done"} /\ epoch > 0) => params = trainedHist[epoch]
    /\ \A i \in 1..Len(preds) : pc \in {"eval", "save"} => preds[i].params = params

\* C9's case: the second epoch's checkpoint is about to be saved after a
\* training pass of several batches and an evaluation with predictions.
C9_Witness ==
    /\ pc = "save"
    /\ epoch = 1
    /\ numTrain >= 2
    /\ Len(preds) >= 1
    /\ params = 2 * numTrain

\* C10: the scheduler is never stepped and the learning rate stays 0.001
\* after any number of training batches and epochs.
C10_LrConstant == schedSteps = 0 /\ lr = InitialLR

\* C10's case: two epochs of training batches done.
C10_Witness ==
    /\ pc = "done"
    /\ epoch = 2
    /\ params >= 2

=============================================================================
